---- MODULE Spec2Model ----
(***************************************************************************)
(* Webhook ingestion gateway: the dispatch pipeline of                     *)
(* packages/core/src/routes/webhook.ts (POST /:platform/:randomKey and the *)
(* detached broadcastEvent task) together with the QQ-bot adapter and its  *)
(* Ed25519 helper.                                                         *)
(*                                                                         *)
(* One inbound call is a process whose steps are the stretches of code     *)
(* between two awaits; the routing store, the lookup timer and the         *)
(* broadcast target are the environment.                                   *)
(***************************************************************************)
EXTENDS Integers, Sequences, FiniteSets, TLC

(***************************************************************************)
(* Bounds of the model                                                     *)
(***************************************************************************)
\* the inbound calls that may be in flight
Calls == {1}

\* platform path segments a caller may use ("acme" is not a known platform)
PathPlatforms == {"qqbot", "github", "acme"}

\* platforms a stored routing record may declare
RecordPlatforms == {"qqbot", "github"}

\* number of routing keys a caller may use
NumKeys == 1

Keys == 1..NumKeys

(***************************************************************************)
(* JavaScript values                                                       *)
(***************************************************************************)
JS_null == [js |-> "null"]

JS_undefined == [js |-> "undefined"]

\* a string is a sequence of one-character strings; "" is <<>>
EmptyString == <<>>

Take(s, n) == IF Len(s) <= n THEN s ELSE SubSeq(s, 1, n)

(***************************************************************************)
(* Program constants                                                       *)
(***************************************************************************)
SUPPORTED_PLATFORMS ==
  {"github", "gitlab", "qqbot", "telegram", "stripe", "jenkins", "jira", "sentry", "generic"}

\* { maxRetries: 2, ... } of the event-count update
DB_maxRetries == 2

\* { maxRetries: 2, ... } of the send to the Durable Object
DO_maxRetries == 2

\* Ed25519 seed length: while (secret.length < 32) ... slice(0, 32)
SEED_LEN == 32

\* Ed25519 signature length in bytes
SIG_LEN == 64

(***************************************************************************)
(* JSON scalars and the sample request bodies                              *)
(***************************************************************************)
Str(s) == [t |-> "string", s |-> s, n |-> 0]

Num(n) == [t |-> "number", s |-> <<>>, n |-> n]

Undef == [t |-> "undefined", s |-> <<>>, n |-> 0]

\* JavaScript truthiness of a JSON scalar: undefined, "" and 0 are falsy
Truthy(v) == \/ v.t = "string" /\ v.s # EmptyString
             \/ v.t = "number" /\ v.n # 0

Digit(n) == CASE n = 0 -> "0" [] n = 1 -> "1" [] n = 2 -> "2" [] n = 3 -> "3"
              [] n = 4 -> "4" [] n = 5 -> "5" [] n = 6 -> "6" [] n = 7 -> "7"
              [] n = 8 -> "8" [] OTHER -> "9"

RECURSIVE Digits(_)
Digits(n) == IF n < 10 THEN <<Digit(n)>> ELSE Digits(n \div 10) \o <<Digit(n % 10)>>

\* String(v) of a JSON scalar
JS_String(v) == CASE v.t = "string" -> v.s
                  [] v.t = "number" -> Digits(v.n)
                  [] OTHER -> <<"u", "n", "d", "e", "f", "i", "n", "e", "d">>

NoD == [present |-> FALSE, plain_token |-> Undef, event_ts |-> Undef]

D(tok, ts) == [present |-> TRUE, plain_token |-> tok, event_ts |-> ts]

Payload(op, id, t, d) == [js |-> "object", op |-> op, id |-> id, t |-> t, d |-> d]

SyntaxError == [js |-> "SyntaxError"]

\* request body texts: each stands for the JSON text written beside it
TXT_bad == <<"{", "o", "p">>

TXT_null == <<"n", "u", "l", "l">>

TXT_dispatch == <<"{", "0", "}">>

TXT_other == <<"{", "7", "}">>

TXT_handshake == <<"{", "1", "3", "s", "}">>

TXT_handshake_num == <<"{", "1", "3", "n", "}">>

TXT_handshake_notoken == <<"{", "1", "3", "t", "}">>

TXT_handshake_nod == <<"{", "1", "3", "}">>

Bodies == {TXT_bad, TXT_null, TXT_dispatch, TXT_other, TXT_handshake,
           TXT_handshake_num, TXT_handshake_notoken, TXT_handshake_nod}

\* JSON.parse on the sample texts
JSON_parse(text) ==
  CASE text = TXT_null -> JS_null
    [] text = TXT_dispatch -> Payload(0, Str(<<"e", "1">>), Str(<<"M", "S", "G">>), D(Undef, Undef))
    [] text = TXT_other -> Payload(7, Undef, Undef, NoD)
    [] text = TXT_handshake -> Payload(13, Undef, Undef, D(Str(<<"t", "k">>), Str(<<"1", "7">>)))
    [] text = TXT_handshake_num -> Payload(13, Undef, Undef, D(Num(42), Num(17)))
    [] text = TXT_handshake_notoken -> Payload(13, Undef, Undef, D(Undef, Str(<<"1", "7">>)))
    [] text = TXT_handshake_nod -> Payload(13, Undef, Undef, NoD)
    [] OTHER -> SyntaxError

(***************************************************************************)
(* HTTP responses                                                          *)
(***************************************************************************)
TextResponse(status, text) == [status |-> status, text |-> text, json |-> JS_null]

JsonResponse(status, json) == [status |-> status, text |-> "", json |-> json]

NoResponse == TextResponse(0, "")

(***************************************************************************)
(* Ed25519 helper (tweetnacl behind Ed25519.sign / Ed25519.verify)         *)
(***************************************************************************)
\* let secret = this.secret; while (secret.length < 32) secret = secret.repeat(2).slice(0, 32)
RECURSIVE stretchSecret(_)
stretchSecret(secret) ==
  IF Len(secret) < SEED_LEN THEN stretchSecret(Take(secret \o secret, SEED_LEN)) ELSE secret

\* new TextEncoder().encode(text).length: UTF-8 takes one byte for an ASCII
\* character and two for the character written "U+00E9" here
utf8Width(ch) == IF ch = "U+00E9" THEN 2 ELSE 1

RECURSIVE TextEncoder_encode_length(_)
TextEncoder_encode_length(text) ==
  IF text = <<>> THEN 0
  ELSE utf8Width(Head(text)) + TextEncoder_encode_length(Tail(text))

\* sign.keyPair.fromSeed: throws "bad seed size" unless the seed has 32 bytes;
\* the key pair is identified by its seed
keyPair_fromSeed(seed) == [ok |-> TextEncoder_encode_length(seed) = SEED_LEN, key |-> seed]

\* sign.detached: an ideal signature, a 64-byte value that names its signer and message
sign_detached(message, key) == [len |-> SIG_LEN, signer |-> key, msg |-> message]

\* sign.detached.verify
sign_detached_verify(message, sigBytes, key) == sigBytes.signer = key /\ sigBytes.msg = message

\* a header value: absent or empty (present = FALSE), or a text that is a
\* hex text of even length (evenHex) decoding to `bytes`
NoHeader == [present |-> FALSE, evenHex |-> TRUE, bytes |-> [len |-> 0, signer |-> <<>>, msg |-> <<>>]]

bytesToHex(bytes) == [present |-> TRUE, evenHex |-> TRUE, bytes |-> bytes]

hexToBytes(hex) == [ok |-> hex.evenHex, bytes |-> hex.bytes]

\* Ed25519.sign: the hex signature, or a throw
Ed25519_sign(secret, message) ==
  LET kp == keyPair_fromSeed(stretchSecret(secret))
  IN IF kp.ok THEN [ok |-> TRUE, hex |-> bytesToHex(sign_detached(message, kp.key))]
     ELSE [ok |-> FALSE, hex |-> NoHeader]

\* what a run of Ed25519.verify did
VerifyRun(thrown, primitive, valid) == [thrown |-> thrown, primitive |-> primitive, valid |-> valid]

\* faulty variant: the decoded length is not looked at before the primitive
Ed25519_verifyRun_noLengthCheck(secret, signature, message) ==
  LET kp == keyPair_fromSeed(stretchSecret(secret))
      dec == hexToBytes(signature)
  IN IF ~kp.ok \/ ~dec.ok THEN VerifyRun(FALSE, FALSE, FALSE)
     ELSE VerifyRun(FALSE, TRUE, dec.bytes.len = SIG_LEN
                                   /\ sign_detached_verify(message, dec.bytes, kp.key))

\* Ed25519.verify, step by step: a throw of fromSeed or of hexToBytes is caught
\* and answered false; a decoded length other than 64 is answered false before
\* sign.detached.verify (the primitive) is called; nothing leaves the try block
Ed25519_verifyRun(secret, signature, message) ==
  LET kp == keyPair_fromSeed(stretchSecret(secret))
      dec == hexToBytes(signature)
  IN IF ~kp.ok \/ ~dec.ok THEN VerifyRun(FALSE, FALSE, FALSE)
     ELSE IF dec.bytes.len # SIG_LEN THEN VerifyRun(FALSE, FALSE, FALSE)
     ELSE VerifyRun(FALSE, TRUE, sign_detached_verify(message, dec.bytes, kp.key))

\* Ed25519.verify: what it returns
Ed25519_verify(secret, signature, message) == Ed25519_verifyRun(secret, signature, message).valid

\* verifyQQBotSignature(body, timestamp, signature, secret)
verifyQQBotSignature(body, timestamp, signature, secret) ==
  Ed25519_verify(secret, signature, timestamp \o body)

\* signQQBotCallback(eventTs, plainToken, secret)
signQQBotCallback(eventTs, plainToken, secret) == Ed25519_sign(secret, eventTs \o plainToken)

(***************************************************************************)
(* Routing records and requests                                            *)
(***************************************************************************)
\* the tenant's App Secret and a secret the tenant does not hold
TenantSecret == <<"a", "b", "c">>

ForeignSecret == <<"x", "y">>

\* an App Secret of 33 characters, one more than the seed length
LongSecret == [i \in 1..(SEED_LEN + 1) |-> "s"]

IdOf(key) == <<"id", key>>

\* what the routing store may hold for a key
ProxyRecords(key) ==
  [js : {"object"}, id : {IdOf(key)}, random_key : {key}, platform : RecordPlatforms,
   active : BOOLEAN, secret : {EmptyString, TenantSecret, LongSecret},
   verifySignature : BOOLEAN]

\* the X-Signature-Timestamp values a caller may send ("" when absent)
Timestamps == {EmptyString, <<"1", "7">>}

SignedBy(secret, message) == Ed25519_sign(secret, message).hex

\* the remote platform signs with the key of the first 32 bytes of the
\* repeated App Secret
RECURSIVE TakeBytes(_, _)
TakeBytes(text, n) ==
  IF text = <<>> \/ utf8Width(Head(text)) > n THEN <<>>
  ELSE <<Head(text)>> \o TakeBytes(Tail(text), n - utf8Width(Head(text)))

platformSeed(secret) == TakeBytes(stretchSecret(secret), SEED_LEN)

PlatformSigned(secret, message) == bytesToHex(sign_detached(message, platformSeed(secret)))

\* a 3-byte value in hex, and a hex text of odd length
ShortSig == bytesToHex([len |-> 3, signer |-> <<>>, msg |-> <<>>])

OddSig == [present |-> TRUE, evenHex |-> FALSE, bytes |-> [len |-> 0, signer |-> <<>>, msg |-> <<>>]]

\* the X-Signature-Ed25519 values a caller may send with body and timestamp:
\* none, the platform's signature for either tenant secret, one over the
\* swapped concatenation, one by a foreign key, and malformed ones
Signatures(body, timestamp) ==
  {NoHeader, SignedBy(TenantSecret, timestamp \o body), SignedBy(TenantSecret, body \o timestamp),
   PlatformSigned(LongSecret, timestamp \o body),
   SignedBy(ForeignSecret, timestamp \o body), ShortSig, OddSig}

Requests ==
  UNION {{[body |-> b, timestamp |-> ts, signature |-> sg] : sg \in Signatures(b, ts)} :
           b \in Bodies, ts \in Timestamps}

NoRequest == [body |-> EmptyString, timestamp |-> EmptyString, signature |-> NoHeader]

(***************************************************************************)
(* QQ-bot adapter                                                          *)
(***************************************************************************)
\* QQBotConfig bound to a routing record
QQBotConfig(proxy) == [secret |-> proxy.secret, verifySignature |-> proxy.verifySignature]

\* the constructor: this.ed25519 is set only for a truthy secret
hasEd25519(config) == config.secret # EmptyString

\* QQBotAdapter.verifySignature
verifySignature(config, body, timestamp, signature) ==
  IF ~config.verifySignature THEN TRUE
  ELSE IF ~hasEd25519(config) THEN FALSE
  ELSE Ed25519_verify(config.secret, signature, timestamp \o body)

\* QQBotAdapter.createAckResponse
createAckResponse == JsonResponse(200, [op |-> 12])

\* QQBotAdapter.handleDispatch
handleDispatch(payload) == createAckResponse

\* faulty variant: the token is echoed as the string it was signed as
handleVerification_echoString(config, payload) ==
  LET plain_token == payload.d.plain_token
      event_ts == payload.d.event_ts
      signed == Ed25519_sign(config.secret, JS_String(event_ts) \o JS_String(plain_token))
  IN IF ~Truthy(plain_token) \/ ~Truthy(event_ts) THEN TextResponse(400, "Bad request")
     ELSE IF ~hasEd25519(config) THEN TextResponse(500, "Server configuration error")
     ELSE IF ~signed.ok THEN TextResponse(500, "Internal server error")
     ELSE JsonResponse(200, [plain_token |-> Str(JS_String(plain_token)), signature |-> signed.hex])

\* faulty variant: the challenge is signed over plain_token ++ event_ts
handleVerification_swapped(config, payload) ==
  LET plain_token == payload.d.plain_token
      event_ts == payload.d.event_ts
      signed == Ed25519_sign(config.secret, JS_String(plain_token) \o JS_String(event_ts))
  IN IF ~Truthy(plain_token) \/ ~Truthy(event_ts) THEN TextResponse(400, "Bad request")
     ELSE IF ~hasEd25519(config) THEN TextResponse(500, "Server configuration error")
     ELSE IF ~signed.ok THEN TextResponse(500, "Internal server error")
     ELSE JsonResponse(200, [plain_token |-> plain_token, signature |-> signed.hex])

\* QQBotAdapter.handleVerification (payload.d is an object)
handleVerification(config, payload) ==
  LET plain_token == payload.d.plain_token
      event_ts == payload.d.event_ts
      signed == Ed25519_sign(config.secret, JS_String(event_ts) \o JS_String(plain_token))
  IN IF ~Truthy(plain_token) \/ ~Truthy(event_ts) THEN TextResponse(400, "Bad request")
     ELSE IF ~hasEd25519(config) THEN TextResponse(500, "Server configuration error")
     ELSE IF ~signed.ok THEN TextResponse(500, "Internal server error")
     ELSE JsonResponse(200, [plain_token |-> plain_token, signature |-> signed.hex])

\* the header guard of handleWebhook: config.verifySignature && timestamp && signature
signatureGuard(config, request) ==
  config.verifySignature /\ request.timestamp # EmptyString /\ request.signature.present

\* faulty variant: an opcode the switch does not know is refused
handleWebhook_rejectUnknown(config, request) ==
  LET payload == JSON_parse(request.body)
  IN IF payload = SyntaxError \/ payload = JS_null
       THEN TextResponse(500, "Internal server error")
     ELSE IF payload.op = 13
       THEN IF payload.d.present THEN handleVerification(config, payload)
            ELSE TextResponse(500, "Internal server error")
     ELSE IF signatureGuard(config, request)
             /\ ~verifySignature(config, request.body, request.timestamp, request.signature)
       THEN TextResponse(401, "Invalid signature")
     ELSE IF payload.op = 0 THEN handleDispatch(payload)
     ELSE TextResponse(400, "Unknown opcode")

\* QQBotAdapter.handleWebhook, from the body text it has read to its response
handleWebhook(config, request) ==
  LET payload == JSON_parse(request.body)
  IN IF payload = SyntaxError \/ payload = JS_null
       THEN TextResponse(500, "Internal server error")
     ELSE IF payload.op = 13
       THEN IF payload.d.present THEN handleVerification(config, payload)
            ELSE TextResponse(500, "Internal server error")
     ELSE IF signatureGuard(config, request)
             /\ ~verifySignature(config, request.body, request.timestamp, request.signature)
       THEN TextResponse(401, "Invalid signature")
     ELSE IF payload.op = 0 THEN handleDispatch(payload)
     ELSE createAckResponse

(***************************************************************************)
(* Collaborators that are not part of the adapter: store, registry,        *)
(* other platforms' adapters, retry helper, outcome classification         *)
(***************************************************************************)
\* getProxyByRandomKey: what a lookup may resolve to, a record or "absent"
getProxyByRandomKey(key) == ProxyRecords(key) \cup {JS_undefined}

\* createAdapter: the QQ-bot adapter exists; any other known platform may be
\* unimplemented in the registry (implemented = FALSE), which yields no adapter
createAdapter(proxy, implemented) ==
  IF proxy.platform = "qqbot" THEN [kind |-> "qqbot", config |-> QQBotConfig(proxy)]
  ELSE IF implemented THEN [kind |-> "other", config |-> QQBotConfig(proxy)]
  ELSE [kind |-> "none", config |-> QQBotConfig(proxy)]

NoAdapter == [kind |-> "none", config |-> [secret |-> EmptyString, verifySignature |-> FALSE]]

\* handleWebhook of another platform's adapter: a body that is not JSON makes
\* its parse throw; otherwise it acknowledges, rejects the signature or throws
Returned(response) == [thrown |-> "", response |-> response]

Thrown(error) == [thrown |-> error, response |-> NoResponse]

otherHandleWebhook(request) ==
  IF JSON_parse(request.body) = SyntaxError THEN {Thrown("SyntaxError")}
  ELSE {Returned(JsonResponse(200, [ok |-> TRUE])), Returned(TextResponse(401, "Invalid signature")),
        Thrown("TypeError"), Thrown("Error")}

\* classifyError
classifyError(error) ==
  CASE error = "SyntaxError" -> "MalformedPayload"
    [] error = "TypeError" -> "MalformedRequest"
    [] OTHER -> "InternalError"

\* withRetry after attempt number `attempt` (from 0) ended: done on success,
\* another attempt while the retries last, else the last error is thrown
withRetry(attempt, maxRetries, succeeded, shouldContinue) ==
  IF succeeded THEN "done"
  ELSE IF shouldContinue /\ attempt < maxRetries THEN "retry"
  ELSE "throw"

(***************************************************************************)
(* State                                                                   *)
(***************************************************************************)
VARIABLES
  pc,          \* where each call's handler is: idle, lookup, adapter, peek, done
  platform,    \* c.req.param('platform')
  randomKey,   \* c.req.param('randomKey')
  request,     \* the inbound request: body text and signature headers
  dbQuery,     \* dbQueryPromise: none, pending, resolved (with value), rejected
  timer,       \* the setTimeout behind timeoutPromise: off, armed, fired
  race,        \* Promise.race([dbQueryPromise, timeoutPromise])
  proxy,       \* the handler's proxy
  adapter,     \* the handler's adapter
  bodyUsed,    \* which body streams were read: c.req.raw and clonedRequest
  response,    \* what adapter.handleWebhook returned or threw
  reply,       \* the response returned to the caller
  perf,        \* what perfMonitor.end recorded, in order
  task,        \* the broadcastEvent task of the call
  hist,        \* the steps of the call and its task, in order
  eventCount,  \* the routing store's event_count per record id
  doInbox,     \* per routing key, the events the broadcast target accepted
  ed,          \* one use of the Ed25519 helper: its arguments and what it gave
  conn         \* the call to GET /:platform/:randomKey/:connectionType

\* the state of the POST handler and its broadcast task
handlerVars == <<pc, platform, randomKey, request, dbQuery, timer, race, proxy, adapter,
                 bodyUsed, response, reply, perf, task, hist, eventCount, doInbox>>

vars == <<pc, platform, randomKey, request, dbQuery, timer, race, proxy, adapter,
          bodyUsed, response, reply, perf, task, hist, eventCount, doInbox, ed, conn>>

NoTask == [pc |-> "none", attempt |-> 0, readable |-> FALSE, event |-> JS_null,
           counted |-> FALSE, error |-> FALSE]

Unsettled == [settled |-> FALSE, rejected |-> FALSE, value |-> JS_null]

\* the Ed25519 helper before it is used
EdIdle ==
  [op |-> "idle", secret |-> EmptyString, body |-> EmptyString, timestamp |-> EmptyString,
   signature |-> NoHeader, plain_token |-> Undef, event_ts |-> Undef, seedBytes |-> 0,
   signed |-> [ok |-> FALSE, hex |-> NoHeader], run |-> VerifyRun(FALSE, FALSE, FALSE),
   valid |-> FALSE, adapterValid |-> FALSE, response |-> NoResponse]

\* the GET handler before a call arrives
ConnIdle ==
  [pc |-> "idle", platform |-> "", randomKey |-> 0, connectionType |-> "",
   tokenHeader |-> <<>>, lookup |-> [state |-> "none", value |-> JS_null],
   proxy |-> JS_null, forwarded |-> <<>>, reply |-> NoResponse]

\* no POST call has arrived: the calls and routing keys are given
HandlerIdleOver(calls, keys) ==
  /\ pc = [c \in calls |-> "idle"]
  /\ platform = [c \in calls |-> ""]
  /\ randomKey = [c \in calls |-> 0]
  /\ request = [c \in calls |-> NoRequest]
  /\ dbQuery = [c \in calls |-> [state |-> "none", value |-> JS_null]]
  /\ timer = [c \in calls |-> "off"]
  /\ race = [c \in calls |-> Unsettled]
  /\ proxy = [c \in calls |-> JS_null]
  /\ adapter = [c \in calls |-> NoAdapter]
  /\ bodyUsed = [c \in calls |-> [raw |-> FALSE, cloned |-> "none"]]
  /\ response = [c \in calls |-> Returned(NoResponse)]
  /\ reply = [c \in calls |-> NoResponse]
  /\ perf = [c \in calls |-> <<>>]
  /\ task = [c \in calls |-> NoTask]
  /\ hist = [c \in calls |-> <<>>]
  /\ eventCount = [i \in {IdOf(k) : k \in keys} |-> 0]
  /\ doInbox = [k \in keys |-> <<>>]

HandlerIdle == HandlerIdleOver(Calls, Keys)

Init == HandlerIdle /\ ed = EdIdle /\ conn = ConnIdle

(***************************************************************************)
(* POST /:platform/:randomKey                                              *)
(***************************************************************************)
\* perfMonitor.end(result, errorType), then return the reply
Return(c, result, errorType, rep) ==
  /\ perf' = [perf EXCEPT ![c] = Append(@, [result |-> result, type |-> errorType])]
  /\ reply' = [reply EXCEPT ![c] = rep]
  /\ pc' = [pc EXCEPT ![c] = "done"]

\* the reply of the catch block for a thrown error
catchReply(error) ==
  CASE error = "SyntaxError" -> TextResponse(400, "Invalid JSON payload")
    [] error = "TypeError" -> TextResponse(400, "Invalid request format")
    [] OTHER -> TextResponse(500, "Internal server error")

\* the catch block
Caught(c, error) == Return(c, "error", classifyError(error), catchReply(error))

\* faulty variant: "absent" is taken for the timeout's null
routingCheck_absentAsNull(p, pathPlatform) ==
  IF p = JS_null \/ p = JS_undefined THEN "DBTimeout"
  ELSE IF ~p.active THEN "ProxyInactive"
  ELSE IF p.platform # pathPlatform THEN "PlatformMismatch"
  ELSE "ok"

\* faulty variant: the platform is compared before the active flag is looked at
routingCheck_mismatchFirst(p, pathPlatform) ==
  IF p = JS_null THEN "DBTimeout"
  ELSE IF p = JS_null \/ p = JS_undefined THEN "ProxyNotFound"
  ELSE IF p.platform # pathPlatform THEN "PlatformMismatch"
  ELSE IF ~p.active THEN "ProxyInactive"
  ELSE "ok"

\* faulty variant: the active flag of the record is not looked at
routingCheck_noActiveCheck(p, pathPlatform) ==
  IF p = JS_null THEN "DBTimeout"
  ELSE IF p = JS_null \/ p = JS_undefined THEN "ProxyNotFound"
  ELSE IF p.platform # pathPlatform THEN "PlatformMismatch"
  ELSE "ok"

\* the checks on the value the race settled with: the first one that fails
routingCheck(p, pathPlatform) ==
  IF p = JS_null THEN "DBTimeout"
  ELSE IF p = JS_null \/ p = JS_undefined THEN "ProxyNotFound"
  ELSE IF ~p.active THEN "ProxyInactive"
  ELSE IF p.platform # pathPlatform THEN "PlatformMismatch"
  ELSE "ok"

\* the reply of each failed check
routingReply(check) ==
  CASE check = "DBTimeout" -> TextResponse(500, "Database timeout")
    [] check = "ProxyNotFound" -> TextResponse(404, "Proxy not found")
    [] check = "ProxyInactive" -> TextResponse(403, "Proxy is inactive")
    [] OTHER -> TextResponse(400, "Platform mismatch")

\* Request.clone(): a fresh copy of an unread body.  Once the body stream was
\* read, the Fetch standard has clone() throw a TypeError; a runtime that tees
\* the consumed stream instead hands out a request whose body cannot be read
Request_clone(stream) ==
  IF stream = "used" THEN {[ok |-> FALSE, stream |-> "used"], [ok |-> TRUE, stream |-> "used"]}
  ELSE {[ok |-> TRUE, stream |-> "fresh"]}

\* the step recorded for a clone(): of an unread or of a consumed body
cloneTag(stream) == IF stream = "used" THEN "clone_consumed" ELSE "clone"

\* broadcastEvent up to its first await: request.json() starts reading the
\* body it was handed, which rejects when that stream was read before
broadcastEvent(stream) ==
  [pc |-> "parse", attempt |-> 0, readable |-> stream = "fresh", event |-> JS_null,
   counted |-> FALSE, error |-> FALSE]

\* the handler from its start to await Promise.race: platform check, then the
\* lookup and the timer are started
ReceiveFrom(c, platforms, keys, requests) ==
  /\ pc[c] = "idle"
  /\ \E p \in platforms, k \in keys, r \in requests :
       /\ platform' = [platform EXCEPT ![c] = p]
       /\ randomKey' = [randomKey EXCEPT ![c] = k]
       /\ request' = [request EXCEPT ![c] = r]
       /\ IF p \notin SUPPORTED_PLATFORMS
            THEN /\ Return(c, "error", "InvalidPlatform", TextResponse(400, "Invalid platform"))
                 /\ hist' = [hist EXCEPT ![c] = Append(@, "reply")]
                 /\ UNCHANGED <<dbQuery, timer>>
            ELSE /\ dbQuery' = [dbQuery EXCEPT ![c] = [state |-> "pending", value |-> JS_null]]
                 /\ timer' = [timer EXCEPT ![c] = "armed"]
                 /\ pc' = [pc EXCEPT ![c] = "lookup"]
                 /\ hist' = [hist EXCEPT ![c] = Append(@, "lookup")]
                 /\ UNCHANGED <<perf, reply>>
  /\ UNCHANGED <<ed, conn, race, proxy, adapter, bodyUsed, response, task, eventCount, doInbox>>

Receive(c) == ReceiveFrom(c, PathPlatforms, Keys, Requests)

\* Promise.race settles with the first of its promises to settle
settle(r, rejected, value) ==
  IF r.settled THEN r ELSE [settled |-> TRUE, rejected |-> rejected, value |-> value]

\* the routing store answers the lookup (at any time, also after the timeout)
StoreResolvesFrom(c, found) ==
  /\ dbQuery[c].state = "pending"
  /\ \E v \in found :
       /\ dbQuery' = [dbQuery EXCEPT ![c] = [state |-> "resolved", value |-> v]]
       /\ race' = [race EXCEPT ![c] = settle(@, FALSE, v)]
  /\ UNCHANGED <<ed, conn, pc, platform, randomKey, request, timer, proxy, adapter, bodyUsed,
                 response, reply, perf, task, hist, eventCount, doInbox>>

StoreResolves(c) == StoreResolvesFrom(c, getProxyByRandomKey(randomKey[c]))

\* the routing store fails the lookup
StoreRejects(c) ==
  /\ dbQuery[c].state = "pending"
  /\ dbQuery' = [dbQuery EXCEPT ![c] = [state |-> "rejected", value |-> JS_null]]
  /\ race' = [race EXCEPT ![c] = settle(@, TRUE, JS_null)]
  /\ UNCHANGED <<ed, conn, pc, platform, randomKey, request, timer, proxy, adapter, bodyUsed,
                 response, reply, perf, task, hist, eventCount, doInbox>>

\* faulty variant: the lookup is awaited alone, the timer settles nothing
raceWithoutTimeout(r) == r

\* the race once the timer has resolved timeoutPromise with null
raceWithTimeout(r) == settle(r, FALSE, JS_null)

\* setTimeout(() => resolve(null), 10000)
TimeoutFires(c) ==
  /\ timer[c] = "armed"
  /\ timer' = [timer EXCEPT ![c] = "fired"]
  /\ race' = [race EXCEPT ![c] = raceWithTimeout(@)]
  /\ UNCHANGED <<ed, conn, pc, platform, randomKey, request, dbQuery, proxy, adapter, bodyUsed,
                 response, reply, perf, task, hist, eventCount, doInbox>>

\* the handler from the settled race to await adapter.handleWebhook(c.req.raw)
AfterLookup(c) ==
  /\ pc[c] = "lookup"
  /\ race[c].settled
  /\ IF race[c].rejected
       THEN /\ Caught(c, "Error")
            /\ hist' = [hist EXCEPT ![c] = Append(@, "reply")]
            /\ UNCHANGED <<proxy, adapter, bodyUsed>>
       ELSE LET p == race[c].value
                check == routingCheck(p, platform[c])
            IN /\ proxy' = [proxy EXCEPT ![c] = p]
               /\ IF check # "ok"
                    THEN /\ Return(c, "error", check, routingReply(check))
                         /\ hist' = [hist EXCEPT ![c] = Append(@, "reply")]
                         /\ UNCHANGED <<adapter, bodyUsed>>
                    ELSE \E implemented \in BOOLEAN :
                           LET a == createAdapter(p, implemented)
                           IN IF a.kind = "none"
                                THEN /\ Return(c, "error", "AdapterCreationFailed",
                                               TextResponse(500, "Failed to create adapter"))
                                     /\ hist' = [hist EXCEPT ![c] = Append(@, "reply")]
                                     /\ UNCHANGED <<adapter, bodyUsed>>
                                ELSE /\ adapter' = [adapter EXCEPT ![c] = a]
                                     /\ bodyUsed' = [bodyUsed EXCEPT ![c] = [raw |-> TRUE, cloned |-> "fresh"]]
                                     /\ pc' = [pc EXCEPT ![c] = "adapter"]
                                     /\ hist' = [hist EXCEPT ![c] = @ \o <<"adapter", "handle">>]
                                     /\ UNCHANGED <<perf, reply>>
  /\ UNCHANGED <<ed, conn, platform, randomKey, request, dbQuery, timer, race, response, task,
                 eventCount, doInbox>>

\* what adapter.handleWebhook may settle with
adapterOutcomes(a, req) ==
  IF a.kind = "qqbot" THEN {Returned(handleWebhook(a.config, req))} ELSE otherHandleWebhook(req)

\* adapter.handleWebhook settles and the handler runs on: to its return, or,
\* for an accepted QQ-bot call, to await clonedRequest.text()
AdapterReturns(c) ==
  /\ pc[c] = "adapter"
  /\ \E r \in adapterOutcomes(adapter[c], request[c]) :
       /\ response' = [response EXCEPT ![c] = r]
       /\ IF r.thrown # ""
            THEN /\ Caught(c, r.thrown)
                 /\ hist' = [hist EXCEPT ![c] = Append(@, "reply")]
                 /\ UNCHANGED <<bodyUsed, task>>
          ELSE IF r.response.status # 200
            THEN /\ Return(c, "success", "", r.response)
                 /\ hist' = [hist EXCEPT ![c] = Append(@, "reply")]
                 /\ UNCHANGED <<bodyUsed, task>>
          ELSE IF platform[c] = "qqbot"
            THEN /\ bodyUsed' = [bodyUsed EXCEPT ![c].cloned = "used"]
                 /\ pc' = [pc EXCEPT ![c] = "peek"]
                 /\ UNCHANGED <<perf, reply, task, hist>>
          ELSE /\ task' = [task EXCEPT ![c] = broadcastEvent(bodyUsed[c].cloned)]
               /\ bodyUsed' = [bodyUsed EXCEPT ![c].cloned = "used"]
               /\ hist' = [hist EXCEPT ![c] = @ \o <<"broadcast", "reply">>]
               /\ Return(c, "success", "", r.response)
  /\ UNCHANGED <<ed, conn, platform, randomKey, request, dbQuery, timer, race, proxy, adapter,
                 eventCount, doInbox>>

\* the QQ-bot branch after clonedRequest.text(): parse, look at the opcode,
\* broadcast opcode 0 with clonedRequest.clone()
QQPeek(c) ==
  /\ pc[c] = "peek"
  /\ LET payload == JSON_parse(request[c].body)
     IN IF payload = SyntaxError
          THEN /\ Caught(c, "SyntaxError")
               /\ hist' = [hist EXCEPT ![c] = Append(@, "reply")]
               /\ UNCHANGED task
        ELSE IF payload = JS_null
          THEN /\ Caught(c, "TypeError")
               /\ hist' = [hist EXCEPT ![c] = Append(@, "reply")]
               /\ UNCHANGED task
        ELSE IF payload.op # 0
          THEN /\ Return(c, "success", "", response[c].response)
               /\ hist' = [hist EXCEPT ![c] = Append(@, "reply")]
               /\ UNCHANGED task
        ELSE \E cloned \in Request_clone(bodyUsed[c].cloned) :
               IF ~cloned.ok
                 THEN /\ Caught(c, "TypeError")
                      /\ hist' = [hist EXCEPT ![c] = @ \o <<cloneTag(bodyUsed[c].cloned), "reply">>]
                      /\ UNCHANGED task
               ELSE /\ task' = [task EXCEPT ![c] = broadcastEvent(cloned.stream)]
                    /\ hist' = [hist EXCEPT ![c] =
                                  @ \o <<cloneTag(bodyUsed[c].cloned), "broadcast", "reply">>]
                    /\ Return(c, "success", "", response[c].response)
  /\ UNCHANGED <<ed, conn, platform, randomKey, request, dbQuery, timer, race, proxy, adapter,
                 bodyUsed, response, eventCount, doInbox>>

(***************************************************************************)
(* The detached broadcastEvent task                                        *)
(***************************************************************************)
\* QQBotAdapter.transform
transform(payload) ==
  [id |-> IF Truthy(payload.id) THEN payload.id ELSE Str(<<"q", "q", "b", "o", "t", "_">>),
   platform |-> "qqbot",
   type |-> IF Truthy(payload.t) THEN payload.t ELSE Str(<<"o", "p", "_">> \o Digits(payload.op)),
   payload |-> payload.d]

\* transform of another platform's adapter: total
otherTransform(a, p, payload) ==
  [id |-> Str(<<"e", "v">>), platform |-> p, type |-> Str(<<"e", "v", "e", "n", "t">>),
   payload |-> payload]

\* faulty variant: the catch block throws the error on, the promise rejects
ended_rethrow(t, failed) == [t EXCEPT !.pc = IF failed THEN "rejected" ELSE "ended", !.error = failed]

\* the task ends: its catch block logs the error, nothing is rethrown
ended(t, failed) == [t EXCEPT !.pc = "ended", !.error = failed]

\* request.json() settles, then adapter.transform, up to the first
\* updateProxyEventCount
TaskParse(c) ==
  /\ task[c].pc = "parse"
  /\ LET payload == JSON_parse(request[c].body)
     IN IF ~task[c].readable \/ payload = SyntaxError
          THEN /\ task' = [task EXCEPT ![c] = ended(@, TRUE)]
               /\ hist' = [hist EXCEPT ![c] = Append(@, "parse")]
        ELSE IF adapter[c].kind = "qqbot" /\ payload = JS_null
          THEN /\ task' = [task EXCEPT ![c] = ended(@, TRUE)]
               /\ hist' = [hist EXCEPT ![c] = @ \o <<"parse", "transform">>]
        ELSE /\ task' = [task EXCEPT ![c] =
                           [@ EXCEPT !.pc = "incr", !.attempt = 0,
                                     !.event = IF adapter[c].kind = "qqbot" THEN transform(payload)
                                               ELSE otherTransform(adapter[c], platform[c], payload)]]
             /\ hist' = [hist EXCEPT ![c] = @ \o <<"parse", "transform">>]
  /\ UNCHANGED <<ed, conn, pc, platform, randomKey, request, dbQuery, timer, race, proxy, adapter,
                 bodyUsed, response, reply, perf, eventCount, doInbox>>

\* one attempt of updateProxyEventCount under withRetry
TaskIncr(c) ==
  /\ task[c].pc = "incr"
  /\ \E succeeded \in BOOLEAN :
       LET next == withRetry(task[c].attempt, DB_maxRetries, succeeded, TRUE)
       IN /\ eventCount' = IF succeeded THEN [eventCount EXCEPT ![proxy[c].id] = @ + 1]
                           ELSE eventCount
          /\ task' = [task EXCEPT ![c] =
                        CASE next = "done" -> [@ EXCEPT !.pc = "send", !.attempt = 0, !.counted = TRUE]
                          [] next = "retry" -> [@ EXCEPT !.attempt = @ + 1]
                          [] OTHER -> ended(@, TRUE)]
  /\ hist' = [hist EXCEPT ![c] = Append(@, "increment")]
  /\ UNCHANGED <<ed, conn, pc, platform, randomKey, request, dbQuery, timer, race, proxy, adapter,
                 bodyUsed, response, reply, perf, doInbox>>

\* what the broadcast target may answer to a send
DOOutcomes == {"2xx", "non2xx", "throws"}

\* faulty variant: the response of the target is not looked at, an attempt
\* counts as failed whatever it returned
sendSucceeded_never(outcome) == FALSE

\* the retried callback: it throws when fetch throws or doResponse.ok is false
sendSucceeded(outcome) == outcome = "2xx"

\* faulty variant: the stub is a handle shared by all calls, obtained for the
\* routing key of the first call
broadcastTarget_shared(c) ==
  IF randomKey[1] \in DOMAIN doInbox THEN randomKey[1] ELSE randomKey[c]

\* WEBHOOK_CONNECTIONS.idFromName(randomKey): the target is named by the
\* routing key the task was handed
broadcastTarget(c) == randomKey[c]

\* one attempt of the send to the Durable Object under withRetry
TaskSend(c) ==
  /\ task[c].pc = "send"
  /\ \E outcome \in DOOutcomes :
       LET next == withRetry(task[c].attempt, DO_maxRetries, sendSucceeded(outcome), TRUE)
       IN /\ doInbox' = IF outcome = "2xx"
                          THEN [doInbox EXCEPT ![broadcastTarget(c)] = Append(@, task[c].event)]
                          ELSE doInbox
          /\ task' = [task EXCEPT ![c] =
                        CASE next = "done" -> ended(@, FALSE)
                          [] next = "retry" -> [@ EXCEPT !.attempt = @ + 1]
                          [] OTHER -> ended(@, TRUE)]
  /\ hist' = [hist EXCEPT ![c] = Append(@, "send")]
  /\ UNCHANGED <<ed, conn, pc, platform, randomKey, request, dbQuery, timer, race, proxy, adapter,
                 bodyUsed, response, reply, perf, eventCount>>

(***************************************************************************)
(* Specification                                                           *)
(***************************************************************************)
Next ==
  \E c \in Calls :
    \/ Receive(c)
    \/ StoreResolves(c)
    \/ StoreRejects(c)
    \/ TimeoutFires(c)
    \/ AfterLookup(c)
    \/ AdapterReturns(c)
    \/ QQPeek(c)
    \/ TaskParse(c)
    \/ TaskIncr(c)
    \/ TaskSend(c)

Spec == Init /\ [][Next]_vars

\* the timer fires, and the handler and the task run on once they can: the
\* runtime schedules every continuation that is ready; the routing store owes
\* no answer
Fairness ==
  \A c \in Calls :
    /\ WF_vars(TimeoutFires(c))
    /\ WF_vars(AfterLookup(c))
    /\ WF_vars(AdapterReturns(c))
    /\ WF_vars(QQPeek(c))
    /\ WF_vars(TaskParse(c))
    /\ WF_vars(TaskIncr(c))
    /\ WF_vars(TaskSend(c))

FairSpec == Spec /\ Fairness

(***************************************************************************)
(* The Ed25519 helper and the signing functions, applied to given arguments *)
(***************************************************************************)
\* an App Secret as long as the seed, and a short one outside ASCII
SeedLengthSecret == [i \in 1..SEED_LEN |-> "k"]

NonAsciiSecret == <<"U+00E9">>

\* the secrets the helper may be constructed with (never the empty one: the
\* adapter constructs the helper for a truthy secret only)
EdSecrets == {TenantSecret, SeedLengthSecret, LongSecret, NonAsciiSecret}

EdBodies == {TXT_dispatch, TXT_other}

\* a 65-byte value in hex
LongSig == bytesToHex([len |-> SIG_LEN + 1, signer |-> <<>>, msg |-> <<>>])

\* the signature texts the helper may be handed for body and timestamp
EdSignatures(secret, body, timestamp) ==
  {NoHeader, PlatformSigned(secret, timestamp \o body), PlatformSigned(secret, body \o timestamp),
   PlatformSigned(ForeignSecret, timestamp \o body), ShortSig, LongSig, OddSig}

\* challenge fields: each a string or a number
EdTokens == {Str(<<"t", "k">>), Num(42)}

EdEventTs == {Str(<<"1", "7">>), Num(17)}

EdInit ==
  /\ HandlerIdle
  /\ conn = ConnIdle
  /\ \E s \in EdSecrets, b \in EdBodies, ts \in Timestamps, tok \in EdTokens, ets \in EdEventTs :
       \E sg \in EdSignatures(s, b, ts) :
         ed = [EdIdle EXCEPT !.op = "ready", !.secret = s, !.body = b, !.timestamp = ts,
                             !.signature = sg, !.plain_token = tok, !.event_ts = ets]

\* new Ed25519(secret).sign(timestamp + body)
EdSign ==
  /\ ed.op = "ready"
  /\ ed' = [ed EXCEPT !.op = "sign",
                      !.seedBytes = TextEncoder_encode_length(stretchSecret(ed.secret)),
                      !.signed = Ed25519_sign(ed.secret, ed.timestamp \o ed.body)]
  /\ UNCHANGED <<handlerVars, conn>>

\* new Ed25519(secret).verify(signature, timestamp + body)
EdVerify ==
  /\ ed.op = "ready"
  /\ ed' = [ed EXCEPT !.op = "verify",
                      !.seedBytes = TextEncoder_encode_length(stretchSecret(ed.secret)),
                      !.run = Ed25519_verifyRun(ed.secret, ed.signature, ed.timestamp \o ed.body),
                      !.valid = Ed25519_verify(ed.secret, ed.signature, ed.timestamp \o ed.body)]
  /\ UNCHANGED <<handlerVars, conn>>

\* sign(message), then verify(what sign returned, message), with one secret
EdRoundTrip ==
  /\ ed.op = "ready"
  /\ LET message == ed.timestamp \o ed.body
         signed == Ed25519_sign(ed.secret, message)
     IN ed' = [ed EXCEPT !.op = "roundtrip",
                         !.signed = signed,
                         !.valid = signed.ok /\ Ed25519_verify(ed.secret, signed.hex, message)]
  /\ UNCHANGED <<handlerVars, conn>>

\* the challenge, answered by signQQBotCallback and by the adapter
EdCallback ==
  /\ ed.op = "ready"
  /\ ed' = [ed EXCEPT !.op = "callback",
                      !.signed = signQQBotCallback(JS_String(ed.event_ts),
                                                   JS_String(ed.plain_token), ed.secret),
                      !.response = handleVerification(
                                     [secret |-> ed.secret, verifySignature |-> TRUE],
                                     Payload(13, Undef, Undef, D(ed.plain_token, ed.event_ts)))]
  /\ UNCHANGED <<handlerVars, conn>>

\* an inbound event, verified by verifyQQBotSignature and by the adapter
EdVerifyEvent ==
  /\ ed.op = "ready"
  /\ ed' = [ed EXCEPT !.op = "verifyEvent",
                      !.valid = verifyQQBotSignature(ed.body, ed.timestamp, ed.signature,
                                                     ed.secret),
                      !.adapterValid = verifySignature(
                                         [secret |-> ed.secret, verifySignature |-> TRUE],
                                         ed.body, ed.timestamp, ed.signature)]
  /\ UNCHANGED <<handlerVars, conn>>

EdNext == EdSign \/ EdVerify \/ EdRoundTrip \/ EdCallback \/ EdVerifyEvent

EdSpec == EdInit /\ [][EdNext]_vars

(***************************************************************************)
(* GET /:platform/:randomKey/:connectionType                               *)
(***************************************************************************)
\* connection type path segments a client may use ("poll" is not a known one)
ConnectionTypes == {"ws", "sse", "poll"}

\* the X-Proxy-Access-Token values a client may send: none, one, or two
ClientTokenHeaders == {<<>>, <<<<"c">>>>, <<<<"c">>, <<"t", "o", "k">>>>}

\* the access_token a stored record may have: none, or a token
AccessTokens == {JS_null, Str(<<"t", "o", "k">>)}

\* a routing record with its access_token column
withAccessToken(r, token) ==
  [js |-> r.js, id |-> r.id, random_key |-> r.random_key, platform |-> r.platform,
   active |-> r.active, secret |-> r.secret, verifySignature |-> r.verifySignature,
   access_token |-> token]

\* what the store may answer to the GET handler's lookup
getProxyWithToken(key) ==
  {withAccessToken(r, t) : r \in ProxyRecords(key), t \in AccessTokens} \cup {JS_undefined}

\* proxy.access_token || ''
accessTokenOrEmpty(p) == IF p.access_token = JS_null THEN EmptyString ELSE p.access_token.s

\* faulty variant: the token is appended to the values the client sent
forwardHeaders_append(clientValues, p) == Append(clientValues, accessTokenOrEmpty(p))

\* new Headers(c.req.raw.headers), then set('X-Proxy-Access-Token', ...): the
\* values of that header in the forwarded request
forwardHeaders(clientValues, p) == <<accessTokenOrEmpty(p)>>

\* the checks on the looked-up record, in order
connCheck(p, pathPlatform) ==
  IF p = JS_null \/ p = JS_undefined THEN TextResponse(404, "Proxy not found or inactive")
  ELSE IF ~p.active THEN TextResponse(404, "Proxy not found or inactive")
  ELSE IF p.platform # pathPlatform THEN TextResponse(400, "Platform mismatch")
  ELSE NoResponse

\* the handler from its start to await getProxyByRandomKey
GetReceive ==
  /\ conn.pc = "idle"
  /\ \E p \in PathPlatforms, k \in Keys, t \in ConnectionTypes, h \in ClientTokenHeaders :
       LET arrived == [conn EXCEPT !.platform = p, !.randomKey = k, !.connectionType = t,
                                   !.tokenHeader = h]
       IN conn' =
            IF p \notin SUPPORTED_PLATFORMS
              THEN [arrived EXCEPT !.pc = "done", !.reply = TextResponse(400, "Invalid platform")]
            ELSE IF t \notin {"ws", "sse"}
              THEN [arrived EXCEPT !.pc = "done",
                                   !.reply = TextResponse(400, "Invalid connection type")]
            ELSE [arrived EXCEPT !.pc = "lookup", !.lookup = [state |-> "pending", value |-> JS_null]]
  /\ UNCHANGED <<handlerVars, ed>>

\* the routing store answers the lookup
GetStoreResolves ==
  /\ conn.lookup.state = "pending"
  /\ \E v \in getProxyWithToken(conn.randomKey) :
       conn' = [conn EXCEPT !.lookup = [state |-> "resolved", value |-> v]]
  /\ UNCHANGED <<handlerVars, ed>>

\* the routing store fails the lookup
GetStoreRejects ==
  /\ conn.lookup.state = "pending"
  /\ conn' = [conn EXCEPT !.lookup = [state |-> "rejected", value |-> JS_null]]
  /\ UNCHANGED <<handlerVars, ed>>

\* the handler from the settled lookup to await doStub.fetch(newRequest)
GetAfterLookup ==
  /\ conn.pc = "lookup"
  /\ conn.lookup.state \in {"resolved", "rejected"}
  /\ conn' =
       IF conn.lookup.state = "rejected"
         THEN [conn EXCEPT !.pc = "done", !.reply = TextResponse(500, "Internal server error")]
       ELSE LET p == conn.lookup.value
                refused == connCheck(p, conn.platform)
            IN IF refused # NoResponse
                 THEN [conn EXCEPT !.pc = "done", !.proxy = p, !.reply = refused]
               ELSE [conn EXCEPT !.pc = "fetch", !.proxy = p,
                                 !.forwarded =
                                   Append(@, [target |-> conn.randomKey,
                                              connectionType |-> conn.connectionType,
                                              tokenHeader |-> forwardHeaders(conn.tokenHeader, p)])]
  /\ UNCHANGED <<handlerVars, ed>>

\* what the broadcast target may answer to the forwarded call: a status, or a throw
TargetAnswers == {101, 200, 401, 0}

\* doStub.fetch settles: its response is handed back, a throw is answered 500
GetTargetAnswers ==
  /\ conn.pc = "fetch"
  /\ \E status \in TargetAnswers :
       conn' = [conn EXCEPT !.pc = "done",
                            !.reply = IF status = 0 THEN TextResponse(500, "Internal server error")
                                      ELSE TextResponse(status, "from target")]
  /\ UNCHANGED <<handlerVars, ed>>

GetInit == HandlerIdle /\ ed = EdIdle /\ conn = ConnIdle

GetNext ==
  \/ GetReceive
  \/ GetStoreResolves
  \/ GetStoreRejects
  \/ GetAfterLookup
  \/ GetTargetAnswers

GetSpec == GetInit /\ [][GetNext]_vars

\* the GET handler runs on once the lookup or the target has answered; the
\* routing store owes no answer
\* ---- two overlapping POST calls --------------------------------------------

\* two calls handled by one isolate at the same time
IsoCalls == {1, 2}

\* the routing keys the two calls can name: always at least two of them
IsoKeys == 1..(NumKeys + 1)

\* the platforms in the path of the two calls
IsoPlatforms == {"github", "qqbot"}

\* each call carries one of two different bodies, without signature headers
IsoRequests ==
  {[body |-> b, timestamp |-> EmptyString, signature |-> NoHeader] : b \in {TXT_dispatch, TXT_other}}

\* every routing key has one active record, of the github platform
IsoLookup(key) ==
  {r \in ProxyRecords(key) :
     r.platform \in IsoPlatforms /\ r.active /\ r.secret = TenantSecret /\ ~r.verifySignature}

IsoInit == HandlerIdleOver(IsoCalls, IsoKeys) /\ ed = EdIdle /\ conn = ConnIdle

IsoReceive(c) == ReceiveFrom(c, IsoPlatforms, IsoKeys, IsoRequests)

IsoStoreResolves(c) == StoreResolvesFrom(c, IsoLookup(randomKey[c]))

IsoNext ==
  \E c \in IsoCalls :
    \/ IsoReceive(c)
    \/ IsoStoreResolves(c)
    \/ StoreRejects(c)
    \/ TimeoutFires(c)
    \/ AfterLookup(c)
    \/ AdapterReturns(c)
    \/ QQPeek(c)
    \/ TaskParse(c)
    \/ TaskIncr(c)
    \/ TaskSend(c)

IsoSpec == IsoInit /\ [][IsoNext]_vars

GetFairness == WF_vars(GetAfterLookup) /\ WF_vars(GetTargetAnswers)

GetFairSpec == GetSpec /\ GetFairness

(***************************************************************************)
(* Properties                                                              *)
(***************************************************************************)
payloadOf(c) == JSON_parse(request[c].body)

IsObject(v) == v # SyntaxError /\ v # JS_null

OpOf(c) == IF IsObject(payloadOf(c)) THEN payloadOf(c).op ELSE -1

Count(seq, x) == Cardinality({i \in DOMAIN seq : seq[i] = x})

Answered(c) == pc[c] = "done"

\* adapter.handleWebhook returned a 200 response
Accepted(c) == response[c].thrown = "" /\ response[c].response.status = 200

\* the call reached the QQ-bot adapter of a record that enables verification
QQVerifying(c) == adapter[c].kind = "qqbot" /\ adapter[c].config.verifySignature

\* the signature header is the signature, under the record's secret, of
\* timestamp header ++ raw body
SignatureMatches(c) ==
  /\ adapter[c].config.secret # EmptyString
  /\ request[c].signature =
       SignedBy(adapter[c].config.secret, request[c].timestamp \o request[c].body)

\* both signature headers were sent, so that there is something to check
HeadersSent(c) == request[c].timestamp # EmptyString /\ request[c].signature.present

BroadcastSteps == {"broadcast", "parse", "transform", "increment", "send"}

\* C1: with verification enabled, a QQ-bot event (op = 0) whose signature was
\* not checked and found valid over timestamp ++ body, whichever of the two
\* signature headers are present, is answered 401 and gets no broadcast task
C1_VerificationGatesAcceptance ==
  \A c \in Calls :
    (Answered(c) /\ QQVerifying(c) /\ OpOf(c) = 0 /\ ~(HeadersSent(c) /\ SignatureMatches(c)))
      => (reply[c].status = 401 /\ response[c].response.status = 401 /\ task[c].pc = "none")

\* C2: with verification enabled, an event that carries a signature header
\* whose signature does not match is answered 401 and gets no broadcast task
C2_MismatchRejected ==
  \A c \in Calls :
    (Answered(c) /\ QQVerifying(c) /\ OpOf(c) \notin {-1, 13}
       /\ request[c].signature.present /\ ~SignatureMatches(c))
      => (reply[c].status = 401 /\ task[c].pc = "none")

\* the call was a genuine event dispatch that the adapter accepted
GenuineDispatch(c) == Accepted(c) /\ (platform[c] = "qqbot" => OpOf(c) = 0)

\* C3: an answered call has exactly one broadcast task if it was a genuine
\* event dispatch that the adapter accepted, and none otherwise
C3_BroadcastIffDispatch ==
  \A c \in Calls :
    Answered(c) =>
      /\ Count(hist[c], "broadcast") = IF GenuineDispatch(c) THEN 1 ELSE 0
      /\ (task[c].pc # "none") <=> GenuineDispatch(c)

\* C4: no body stream is cloned or read after it was consumed, and the
\* broadcast task is handed a body it can still read
C4_IndependentBodyCopy ==
  \A c \in Calls :
    /\ Count(hist[c], "clone_consumed") = 0
    /\ (task[c].pc # "none" /\ payloadOf(c) # SyntaxError) => task[c].readable

\* C5: whenever adapter.handleWebhook returned a 200 response, that response
\* is the one the caller receives
C5_BroadcastNeverFailsReply ==
  \A c \in Calls : (Answered(c) /\ Accepted(c)) => reply[c] = response[c].response

\* C6: when every attempt of the event-count update failed, the event is
\* still sent to the broadcast target
C6_DeliveryWithoutBookkeeping ==
  \A c \in Calls :
    (task[c].pc = "ended" /\ ~task[c].counted /\ Count(hist[c], "increment") = DB_maxRetries + 1)
      => Count(hist[c], "send") >= 1

\* C7: every step of the broadcast of a call comes after the reply to the call
C7_ReplyBeforeBroadcast ==
  \A c \in Calls :
    \A i \in DOMAIN hist[c] :
      hist[c][i] \in BroadcastSteps => \E j \in 1..(i - 1) : hist[c][j] = "reply"

\* the store answered "absent" before the timer fired
AbsentFirst(c) == race[c].settled /\ ~race[c].rejected /\ race[c].value = JS_undefined

TimedOut(c) ==
  /\ pc[c] = "done"
  /\ reply[c] = TextResponse(500, "Database timeout")
  /\ perf[c] = <<[result |-> "error", type |-> "DBTimeout"]>>
  /\ adapter[c] = NoAdapter
  /\ task[c] = NoTask

\* the timer settled the race, before the store did
TimerFirst(c) == race[c].settled /\ ~race[c].rejected /\ race[c].value = JS_null

\* C9: a call whose lookup the store does not resolve still ends, as a lookup
\* timeout; and it stays one when the lookup result arrives after the timeout
C9_BoundedLookup ==
  \A c \in Calls :
    /\ (pc[c] = "lookup") ~> (dbQuery[c].state # "pending" \/ TimedOut(c))
    /\ []((Answered(c) /\ platform[c] \in SUPPORTED_PLATFORMS
              /\ (dbQuery[c].state = "pending" \/ TimerFirst(c)))
            => TimedOut(c))

C9_Witness ==
  \E c \in Calls : TimedOut(c) /\ dbQuery[c].state = "resolved" /\ dbQuery[c].value # JS_undefined

\* the reply and the recorded error of the first routing check that fails
FirstFailure(c) ==
  IF platform[c] \notin SUPPORTED_PLATFORMS THEN <<400, "Invalid platform", "InvalidPlatform">>
  ELSE IF race[c].rejected THEN <<500, "Internal server error", "InternalError">>
  ELSE IF race[c].value = JS_null THEN <<500, "Database timeout", "DBTimeout">>
  ELSE IF race[c].value = JS_undefined THEN <<404, "Proxy not found", "ProxyNotFound">>
  ELSE IF ~race[c].value.active THEN <<403, "Proxy is inactive", "ProxyInactive">>
  ELSE IF race[c].value.platform # platform[c] THEN <<400, "Platform mismatch", "PlatformMismatch">>
  ELSE IF adapter[c].kind = "none" THEN <<500, "Failed to create adapter", "AdapterCreationFailed">>
  ELSE <<0, "", "">>

ReachedAdapter(c) == adapter[c].kind # "none"

\* C11: a call that passes the routing checks with a body that is not JSON is
\* answered 400 'Invalid JSON payload', on every platform, and no broadcast
\* is scheduled
C11_MalformedJsonRejected ==
  \A c \in Calls :
    (Answered(c) /\ ReachedAdapter(c) /\ payloadOf(c) = SyntaxError)
      => /\ reply[c] = TextResponse(400, "Invalid JSON payload")
         /\ Count(hist[c], "broadcast") = 0
         /\ task[c] = NoTask

\* the call was answered by the QQ-bot adapter and its message is a handshake
Handshake(c) == Answered(c) /\ adapter[c].kind = "qqbot" /\ OpOf(c) = 13

\* a required challenge field, or the whole d object, is absent
ChallengeFieldAbsent(c) ==
  \/ ~payloadOf(c).d.present
  \/ payloadOf(c).d.plain_token = Undef
  \/ payloadOf(c).d.event_ts = Undef

\* the challenge response the remote platform accepts: the token as received
\* and the signature over event_ts ++ plain_token by the key of the secret
ChallengeResponse(c) ==
  JsonResponse(200,
    [plain_token |-> payloadOf(c).d.plain_token,
     signature |-> PlatformSigned(adapter[c].config.secret,
                                  JS_String(payloadOf(c).d.event_ts)
                                    \o JS_String(payloadOf(c).d.plain_token))])

\* C12: a handshake is answered from its fields and the bound credential
\* alone: 400 when a challenge field (or d) is absent, else 500 'Server
\* configuration error' when no credential is bound, else 200 with the signed
\* challenge response
C12_HandshakeDecided ==
  \A c \in Calls :
    Handshake(c) =>
      IF ChallengeFieldAbsent(c) THEN reply[c].status = 400
      ELSE IF adapter[c].config.secret = EmptyString
        THEN reply[c] = TextResponse(500, "Server configuration error")
      ELSE reply[c] = ChallengeResponse(c)

\* C13: a 200 challenge response carries the token with the value and the
\* JSON type it was received with, and is what the caller receives
C13_HandshakeEcho ==
  \A c \in Calls :
    (Handshake(c) /\ response[c].response.status = 200)
      => /\ response[c].response.json.plain_token = payloadOf(c).d.plain_token
         /\ reply[c] = response[c].response

C13_Witness ==
  \E c \in Calls :
    /\ Handshake(c)
    /\ reply[c].status = 200
    /\ payloadOf(c).d.plain_token = Num(42)
    /\ reply[c].json.plain_token.t = "number"

\* the call reached the QQ-bot adapter with an opcode other than 0 and 13
UnknownOp(c) == adapter[c].kind = "qqbot" /\ OpOf(c) \notin {-1, 0, 13}

\* verification is enabled, both signature headers were sent and the
\* signature does not verify
SignatureRefused(c) ==
  /\ signatureGuard(adapter[c].config, request[c])
  /\ ~verifySignature(adapter[c].config, request[c].body, request[c].timestamp,
                      request[c].signature)

\* C15 as claimed: a message with an unknown opcode is answered 200 {op: 12},
\* is never transformed and schedules no broadcast, whatever its signature
\* headers
C15_UnknownOpAcknowledged ==
  \A c \in Calls :
    (Answered(c) /\ UnknownOp(c))
      => /\ reply[c] = createAckResponse
         /\ Count(hist[c], "transform") = 0
         /\ task[c] = NoTask

\* C15 amended: a message with an unknown opcode is never transformed and
\* schedules no broadcast, whatever its signature headers; it is answered
\* 200 {op: 12}, unless its signature is checked and refused, when it is
\* answered 401 'Invalid signature'
C15_UnknownOpHarmless ==
  \A c \in Calls :
    (Answered(c) /\ UnknownOp(c))
      => /\ reply[c] = IF SignatureRefused(c) THEN TextResponse(401, "Invalid signature")
                       ELSE createAckResponse
         /\ Count(hist[c], "transform") = 0
         /\ Count(hist[c], "broadcast") = 0
         /\ task[c] = NoTask

C15_Witness ==
  \E c \in Calls :
    /\ Answered(c)
    /\ UnknownOp(c)
    /\ QQVerifying(c)
    /\ HeadersSent(c)
    /\ reply[c] = createAckResponse

\* the two concatenations of the challenge fields, each rendered as a string
ChallengeMessage == JS_String(ed.event_ts) \o JS_String(ed.plain_token)

SwappedChallenge == JS_String(ed.plain_token) \o JS_String(ed.event_ts)

\* the message a signature text was made over
SignedMessage(hex) == hexToBytes(hex).bytes.msg

C16_SeedIs32Bytes ==
  /\ ed.op \in {"sign", "verify"} => ed.seedBytes = SEED_LEN
  /\ ed.op = "sign" => ed.signed.ok
  /\ (ed.op = "verify" /\ ed.signature = PlatformSigned(ed.secret, ed.timestamp \o ed.body))
       => ed.valid

\* C17: verifying, with the same secret, the signature that sign produced for
\* a message returns valid
C17_RoundTrip == ed.op = "roundtrip" => ed.valid

\* the signature text decodes to exactly 64 bytes
DecodesTo64(hex) == hexToBytes(hex).ok /\ hexToBytes(hex).bytes.len = SIG_LEN

\* C18: Ed25519.verify never throws, and for a signature text that does not
\* decode to exactly 64 bytes it returns false without calling the
\* verification primitive
C18_VerifyNeverThrows ==
  ed.op = "verify" =>
    /\ ~ed.run.thrown
    /\ ~DecodesTo64(ed.signature) => (~ed.run.primitive /\ ~ed.run.valid /\ ~ed.valid)

C18_Witness ==
  /\ ed.op = "verify"
  /\ ed.secret = TenantSecret
  /\ ed.signature = OddSig
  /\ ~ed.run.primitive
  /\ ~ed.valid

\* the platform's signature over timestamp ++ body was sent with the call
PlatformSignatureSent(c) ==
  /\ adapter[c].config.secret # EmptyString
  /\ HeadersSent(c)
  /\ request[c].signature =
       PlatformSigned(adapter[c].config.secret, request[c].timestamp \o request[c].body)

\* a valid signed event on an active record of the platform of the path: for
\* QQ-bot an op = 0 message with the platform's signature, for another
\* platform a message its adapter accepted
ValidEvent(c) ==
  /\ ReachedAdapter(c)
  /\ IF adapter[c].kind = "qqbot" THEN OpOf(c) = 0 /\ PlatformSignatureSent(c)
     ELSE Accepted(c)

\* every attempt of the counter update failed; every attempt of the send failed
IncrExhausted(c) == ~task[c].counted /\ Count(hist[c], "increment") = DB_maxRetries + 1

SendExhausted(c) == task[c].error /\ Count(hist[c], "send") = DO_maxRetries + 1

\* the event type of the inbound message: for QQ-bot its t field
TypeMatches(c, event) == adapter[c].kind = "qqbot" => event.type = payloadOf(c).t

\* C19: a valid signed event is answered 200 with a broadcast task, and once
\* that task has ended without the store or the target exhausting its
\* retries, the target of the routing key has received exactly one event, of
\* the platform and type of the inbound one, and the counter was incremented
C19_ValidEventDelivered ==
  \A c \in Calls :
    (Answered(c) /\ ValidEvent(c)) =>
      /\ reply[c].status = 200
      /\ task[c].pc # "none"
      /\ (task[c].pc = "ended" /\ ~IncrExhausted(c) /\ ~SendExhausted(c)) =>
           /\ Len(doInbox[randomKey[c]]) = 1
           /\ doInbox[randomKey[c]][1].platform = platform[c]
           /\ TypeMatches(c, doInbox[randomKey[c]][1])
           /\ eventCount[proxy[c].id] >= 1

\* C20: the GET endpoint forwards a call to the broadcast target only for a
\* supported platform, connection type ws or sse and a record that is
\* present, active and of the platform of the path; the forwarded request is
\* addressed by the routing key and its X-Proxy-Access-Token is the record's
\* access token alone, whatever the client sent
C20_ForwardGuarded ==
  /\ Len(conn.forwarded) <= 1
  /\ \A i \in DOMAIN conn.forwarded :
       LET p == conn.lookup.value
       IN /\ conn.platform \in SUPPORTED_PLATFORMS
          /\ conn.connectionType \in {"ws", "sse"}
          /\ conn.lookup.state = "resolved"
          /\ p # JS_null /\ p # JS_undefined
          /\ p.active
          /\ p.platform = conn.platform
          /\ p.random_key = conn.randomKey
          /\ conn.forwarded[i].target = conn.randomKey
          /\ conn.forwarded[i].tokenHeader =
               <<IF p.access_token = JS_null THEN EmptyString ELSE p.access_token.s>>

C20_Witness ==
  /\ conn.pc = "done"
  /\ conn.reply.status = 101
  /\ conn.tokenHeader = <<<<"c">>>>
  /\ conn.forwarded =
       <<[target |-> conn.randomKey, connectionType |-> "ws", tokenHeader |-> <<<<"t", "o", "k">>>>]>>

\* C21: the broadcast task always ends, with its promise resolved, whatever
\* fails in it: the body is parsed once, the counter update and the send are
\* each attempted at most maxRetries + 1 times
C21_TaskTerminates ==
  \A c \in Calls :
    /\ (task[c].pc # "none") ~> (task[c].pc = "ended")
    /\ [](/\ task[c].pc \in {"none", "parse", "incr", "send", "ended"}
          /\ Count(hist[c], "parse") <= 1
          /\ Count(hist[c], "increment") <= DB_maxRetries + 1
          /\ Count(hist[c], "send") <= DO_maxRetries + 1)

C21_Witness ==
  \E c \in Calls :
    /\ task[c].pc = "ended"
    /\ task[c].error
    /\ task[c].counted
    /\ Count(hist[c], "send") = DO_maxRetries + 1

\* C22: a call causes at most one broadcast task; the target accepts at most
\* one delivery of it, and while a further send may still come no send has
\* been accepted: every send but the last one failed
C22_OneLogicalDelivery ==
  \A c \in Calls :
    /\ Count(hist[c], "broadcast") <= 1
    /\ pc[c] # "idle" =>
         /\ Len(doInbox[randomKey[c]]) <= 1
         /\ task[c].pc = "send" => (Len(doInbox[randomKey[c]]) = 0
                                      /\ Count(hist[c], "send") = task[c].attempt)
         /\ Len(doInbox[randomKey[c]]) = 1 => (task[c].pc = "ended" /\ ~task[c].error)

C22_Witness ==
  \E c \in Calls :
    /\ task[c].pc = "ended"
    /\ Count(hist[c], "send") = DO_maxRetries + 1
    /\ Len(doInbox[randomKey[c]]) = 1

\* an adapter was constructed, its request handling was invoked, or something
\* that follows it (an adapter response, a broadcast task) exists
HandlingStarted(c) ==
  \/ adapter[c] # NoAdapter
  \/ response[c] # Returned(NoResponse)
  \/ task[c] # NoTask
  \/ \E i \in DOMAIN hist[c] : hist[c][i] \in {"adapter", "handle"} \cup BroadcastSteps

\* the platform segment is a known one and the lookup gave a record that is
\* active and of that platform
RoutingPassed(c) ==
  /\ platform[c] \in SUPPORTED_PLATFORMS
  /\ race[c].settled /\ ~race[c].rejected
  /\ proxy[c] = race[c].value
  /\ proxy[c] # JS_null /\ proxy[c] # JS_undefined
  /\ proxy[c].random_key = randomKey[c]
  /\ proxy[c].active
  /\ proxy[c].platform = platform[c]

\* C23: an adapter is constructed and invoked, and an acknowledgement or a
\* broadcast follows, only after the platform check and a lookup that gave an
\* active record of the platform; the adapter holds that record's credential,
\* and the steps come in the order lookup, construction, handling
C23_PipelineOrder ==
  \A c \in Calls :
    HandlingStarted(c) =>
      /\ RoutingPassed(c)
      /\ adapter[c].config = QQBotConfig(proxy[c])
      /\ Len(hist[c]) >= 3
      /\ SubSeq(hist[c], 1, 3) = <<"lookup", "adapter", "handle">>

C23_Witness ==
  \E c \in Calls : Answered(c) /\ Accepted(c) /\ task[c].pc = "ended" /\ RoutingPassed(c)

\* C24: exactly one outcome is recorded for an answered call, and it is
\* 'success' only if the response returned to the caller has status 200
C24_OutcomeAgrees ==
  \A c \in Calls :
    Answered(c) =>
      /\ Len(perf[c]) = 1
      /\ perf[c][1].result = "success" => reply[c].status = 200

\* C25: in the POST handler and in the GET handler, a call that waits for the
\* routing store is answered even when the store never answers
C25_EveryLookupBounded ==
  /\ \A c \in Calls : (pc[c] = "lookup") ~> (pc[c] = "done" \/ dbQuery[c].state # "pending")
  /\ (conn.pc = "lookup") ~> (conn.pc = "done" \/ conn.lookup.state # "pending")

\* the task of call c was answered 2xx by its target
Delivered(c) == task[c].pc = "ended" /\ ~task[c].error

\* the event that the body of call c itself transforms to
OwnEvent(c) ==
  IF adapter[c].kind = "qqbot" THEN transform(JSON_parse(request[c].body))
  ELSE otherTransform(adapter[c], platform[c], JSON_parse(request[c].body))

\* C26: with two calls overlapping in one isolate, on the same routing key or
\* on different ones, the event of each task is built from the body of its own
\* call, every event a target received is the own event of a call that named
\* that target's routing key (one event per delivered call, none else), and
\* every counter holds exactly the increments of the calls whose own record
\* has that id.
C26_CallIsolation ==
  /\ \A c \in IsoCalls : task[c].event # JS_null => task[c].event = OwnEvent(c)
  /\ \A k \in IsoKeys :
       /\ Len(doInbox[k]) = Cardinality({c \in IsoCalls : randomKey[c] = k /\ Delivered(c)})
       /\ \A i \in DOMAIN doInbox[k] :
            \E c \in IsoCalls : randomKey[c] = k /\ Delivered(c) /\ doInbox[k][i] = OwnEvent(c)
       /\ eventCount[IdOf(k)] =
            Cardinality({c \in IsoCalls : task[c].counted /\ proxy[c].id = IdOf(k)})

\* both calls delivered, with different bodies, to different routing keys
C26_Witness ==
  /\ Delivered(1) /\ Delivered(2)
  /\ randomKey[1] # randomKey[2]
  /\ request[1].body # request[2].body
  /\ doInbox[randomKey[1]] = <<OwnEvent(1)>> /\ doInbox[randomKey[2]] = <<OwnEvent(2)>>
  /\ task[1].counted /\ task[2].counted

====
